---- MODULE Spec2Model ----
(***************************************************************************)
(* The buffer Stream: a bridge that drives a ReaderWriter backend from an  *)
(* upstream Transaction channel (inputLoop) to a downstream Transaction    *)
(* channel (outputLoop), with a two-level shutdown Signaller.              *)
(*                                                                         *)
(* Every goroutine is a process with a program counter; a Go select is a   *)
(* choice among the cases that can proceed (the runtime picks any ready    *)
(* case).  The upstream producer, the downstream consumer and the backend  *)
(* are the environment.  Transaction i carries batch i.                    *)
(*                                                                         *)
(* The airGapBatchBuffer adapter, which turns a BatchBuffer into a          *)
(* ReaderWriter, is modelled beside it with its own state: message parts   *)
(* live at addresses of a heap, so that a copy and an alias differ.        *)
(***************************************************************************)
EXTENDS Integers, Sequences, FiniteSets, TLC

\* ---------------------------------------------------------------- bounds
\* Number of Transactions the upstream producer offers.
MaxTx == 2
\* Number of batches the backend holds before Write blocks (backpressure).
BufCap == 1
\* Number of transient Read failures the backend produces in a run.
MaxReadFail == 2
\* The RetryThrottle's ceiling of consecutive failures.
ThrottleCeiling == 2
\* Number of parts of the message handed to the adapter's Write.
MaxUnits == 2
\* Number of Read calls made on the adapter.
MaxReads == 2
\* Number of calls of an AckFunc the adapter returned.
MaxAcks == 2

TxIds == 1..MaxTx

\* ---------------------------------------------------------------- errors
Nil == "nil"
ErrWrite == "ErrWrite"
ErrRead == "ErrRead"
ErrSend == "ErrSend"
Canceled == "context.Canceled"
ErrTypeClosed == "ErrTypeClosed"
ErrAlreadyStarted == "ErrAlreadyStarted"
ErrTimeout == "ErrTimeout"
ErrEndOfBuffer == "ErrEndOfBuffer"
WrappedEndOfBuffer == "wrapped ErrEndOfBuffer"
ErrAck == "ErrAck"
None == "none"

VARIABLES
    \* Stream fields
    messagesIn,      \* "nil" or "chan": the bound upstream channel
    closedWG,        \* sync.WaitGroup counter
    streak,          \* errThrottle: consecutive failures
    stats,           \* metrics counters (write.*, read.*, send.*)
    \* shutSig (Signaller)
    closeAtLeisure, closeNow, hasClosed,
    \* inputLoop goroutine
    ilpc, ilTr, ilErr,
    writeCall,       \* the Write call in progress: what held when it began
    \* outputLoop goroutine
    olpc, olMsg, olRes, olExit,
    \* messagesOut and the response channels made by outputLoop
    outClosed,       \* number of close(messagesOut) calls
    emitted,         \* Transactions sent on messagesOut, in order
    resChan,         \* per batch: the state of its Transaction's response channel
    \* backend (ReaderWriter)
    buf,             \* batches held
    eoiCalls,        \* EndOfInput calls
    closeCalls,      \* Close calls
    readFails,       \* transient Read failures produced so far
    \* upstream producer
    upSent,          \* Transactions dequeued by inputLoop so far; the producer
                     \* is blocked sending the next one while any is left
    upClosed,        \* the producer closed the channel
    \* the control calls: their results and the pairs of loops (each with its
    \* watcher) that Consume has started
    consumeRes, waitRes, loopsStarted,
    timedOut,        \* history: a WaitForClose timed out before Stopped
    \* history (observations of the run, read by the properties only)
    preDrain,        \* Transactions dequeued before drain was requested
    writeRes,        \* per Transaction: what Write returned
    responses,       \* per Transaction: the responses sent on its channel
    acks,            \* per batch: the arguments of the AckFunc calls
    readOrder,       \* the batches in the order Read returned them
    ackOrder,        \* the batches in the order their AckFuncs were called
    lateCall,        \* a Read, an AckFunc call or a send on messagesOut was made
                     \* after the backend, resp. messagesOut, was closed
    inflightAtAbort, \* batches Read and not acknowledged when abort was requested
    \* airGapBatchBuffer and its BatchBuffer
    heap,            \* the content of every message part, by address
    callerMsg,       \* the message handed to Write: the addresses of its parts
    held,            \* the batches the BatchBuffer holds, oldest first
    writeOut,        \* the Write call: the batch forwarded, the contents it was
                     \* made from, what WriteBatch returned and what Write returned
    reads,           \* the Read calls: what ReadBatch and what Read returned
    ackLog           \* the calls of a returned AckFunc

streamVars == <<messagesIn, closedWG, streak, stats>>
sigVars == <<closeAtLeisure, closeNow, hasClosed>>
inVars == <<ilpc, ilTr, ilErr, writeCall>>
outVars == <<olpc, olMsg, olRes, olExit>>
chanVars == <<outClosed, emitted, resChan>>
backendVars == <<buf, eoiCalls, closeCalls, readFails>>
upVars == <<upSent, upClosed>>
callVars == <<consumeRes, waitRes, loopsStarted, timedOut>>
inHist == <<preDrain, writeRes, responses>>
outHist == <<acks, readOrder, ackOrder, lateCall>>
sigHist == <<inflightAtAbort>>
adapterVars == <<heap, callerMsg, held, writeOut, reads, ackLog>>

bridgeVars == <<streamVars, sigVars, inVars, outVars, chanVars, backendVars,
                upVars, callVars, inHist, outHist, sigHist>>

vars == <<bridgeVars, adapterVars>>

\* ---------------------------------------------------------------- helpers
Bump(field) == [stats EXCEPT ![field] = @ + 1]

\* A context derived from the Signaller is cancelled once its level is requested.
Cancelled(ctx) == IF ctx = "leisure" THEN closeAtLeisure ELSE closeNow

\* The context inputLoop passes to Write: CloseAtLeisureCtx.
\* Variant: Write under the abort-level context.
WriteCtxNow == "now"
WriteCtx == "leisure"

\* The context outputLoop passes to Read and to the AckFunc: CloseNowCtx.
\* Variant: Read under the drain-level context.
ReadCtxLeisure == "leisure"
ReadCtx == "now"

\* The channel the errThrottle is interrupted by: CloseAtLeisureChan.
ThrottleCloseChan == closeAtLeisure

InputExited == ilpc \in {"eoi", "wgdone", "done"}
OutputExited == olpc \in {"close", "closeOut", "wgdone", "done"}

\* No Write call is in progress.
NoCall == [tr |-> 0, drained |-> FALSE, ctxDone |-> FALSE, closed |-> FALSE,
           eoi |-> FALSE]

\* No Write was made on the adapter.
NoWrite == [called |-> FALSE, batch |-> <<>>, sent |-> <<>>, wbErr |-> None,
            err |-> None]

\* The adapter before any call, with an empty message.
AdapterIdle ==
    /\ heap = <<>> /\ callerMsg = <<>> /\ held = <<>>
    /\ writeOut = NoWrite /\ reads = <<>> /\ ackLog = <<>>

\* The Stream after NewStream.
StreamInit ==
    /\ messagesIn = "nil" /\ closedWG = 0 /\ streak = 0
    /\ stats = [write_count |-> 0, write_error |-> 0, read_count |-> 0,
                read_error |-> 0, send_success |-> 0, send_error |-> 0]
    /\ closeAtLeisure = FALSE /\ closeNow = FALSE /\ hasClosed = FALSE
    /\ ilpc = "idle" /\ ilTr = 0 /\ ilErr = None /\ writeCall = NoCall
    /\ olpc = "idle" /\ olMsg = 0 /\ olRes = None
    /\ olExit = [why |-> None, drained |-> FALSE]
    /\ outClosed = 0 /\ emitted = <<>> /\ resChan = [b \in TxIds |-> "nochan"]
    /\ buf = <<>> /\ eoiCalls = 0 /\ closeCalls = 0 /\ readFails = 0
    /\ upSent = 0 /\ upClosed = FALSE
    /\ consumeRes = None /\ waitRes = None /\ loopsStarted = 0 /\ timedOut = FALSE
    /\ preDrain = {}
    /\ writeRes = [i \in TxIds |-> None]
    /\ responses = [i \in TxIds |-> <<>>]
    /\ acks = [b \in TxIds |-> <<>>]
    /\ readOrder = <<>> /\ ackOrder = <<>>
    /\ lateCall = {}
    /\ inflightAtAbort = {}

Init == StreamInit /\ AdapterIdle

\* ------------------------------------------------------------ Signaller
CloseAtLeisure == closeAtLeisure' = TRUE /\ UNCHANGED <<closeNow, hasClosed>>

\* Abort implies drain.
CloseNow == closeAtLeisure' = TRUE /\ closeNow' = TRUE /\ UNCHANGED hasClosed

ShutdownComplete == hasClosed' = TRUE /\ UNCHANGED <<closeAtLeisure, closeNow>>

\* ------------------------------------------------------- Stream methods
\* The channel values a caller can hand to Consume.
ChanValues == {"nil", "chan"}

\* Consume(msgs): a Stream whose messagesIn is not nil answers
\* ErrAlreadyStarted; otherwise msgs is stored and the two loops and the
\* watcher are started.  ilpc and olpc are the positions of the first pair of
\* loops; a further pair is counted and not followed.
ConsumeWith(msgs) ==
    IF messagesIn # "nil"
    THEN /\ consumeRes' = ErrAlreadyStarted
         /\ UNCHANGED <<streamVars, sigVars, inVars, outVars, chanVars, backendVars,
                        upVars, waitRes, loopsStarted, timedOut, inHist, outHist, sigHist, adapterVars>>
    ELSE /\ messagesIn' = msgs
         /\ closedWG' = closedWG + 2
         /\ loopsStarted' = loopsStarted + 1
         /\ ilpc' = IF loopsStarted = 0 THEN "select" ELSE ilpc
         /\ olpc' = IF loopsStarted = 0 THEN "read" ELSE olpc
         /\ consumeRes' = Nil
         /\ UNCHANGED <<streak, stats, sigVars, ilTr, ilErr, writeCall, olMsg, olRes,
                        olExit,
                        chanVars, backendVars, upVars, waitRes, timedOut, inHist,
                        outHist, sigHist, adapterVars>>

\* Consume with an upstream channel.
Consume == ConsumeWith("chan")

\* The batch outputLoop has Read and not yet acknowledged.
InFlight == IF olpc \in {"send", "wait", "ack"} THEN {olMsg} ELSE {}

CloseAsync ==
    /\ CloseNow
    /\ inflightAtAbort' = IF closeNow THEN inflightAtAbort ELSE InFlight
    /\ UNCHANGED <<streamVars, inVars, outVars, chanVars, backendVars, upVars,
                   callVars, inHist, outHist, adapterVars>>

StopConsuming ==
    /\ CloseAtLeisure
    /\ UNCHANGED <<streamVars, inVars, outVars, chanVars, backendVars, upVars,
                   callVars, inHist, outHist, sigHist, adapterVars>>

\* The channel WaitForClose waits on: HasClosedChan.
\* Variant: WaitForClose waits on the abort request.
WaitChanCloseNow == closeNow
WaitChan == hasClosed

\* select { case <-HasClosedChan: nil; case <-time.After(timeout): ErrTimeout }
WaitForClose ==
    /\ \/ WaitChan /\ waitRes' = Nil /\ UNCHANGED timedOut
       \/ waitRes' = ErrTimeout /\ timedOut' = (timedOut \/ ~hasClosed)
    /\ UNCHANGED <<streamVars, sigVars, inVars, outVars, chanVars, backendVars,
                   upVars, consumeRes, loopsStarted, inHist, outHist, sigHist, adapterVars>>

\* closedWG.Wait() returns.
\* Variant: the watcher waits for one loop only.
WGWaitLax == closedWG <= 1
WGWait == closedWG = 0

\* go func() { closedWG.Wait(); shutSig.ShutdownComplete() }()
Watcher ==
    /\ loopsStarted > 0 /\ ~hasClosed
    /\ WGWait
    /\ ShutdownComplete
    /\ UNCHANGED <<streamVars, inVars, outVars, chanVars, backendVars, upVars,
                   callVars, inHist, outHist, sigHist, adapterVars>>

\* ------------------------------------------------------------ inputLoop
\* The deferred func of inputLoop runs on every return.
\* Variant: a return that skips EndOfInput.
ILReturnSkipEOI == "wgdone"
ILReturn == "eoi"

\* The upstream producer has a Transaction to send on the bound channel (a
\* receive from a nil channel blocks for ever).
UpstreamOffers == messagesIn = "chan" /\ ~upClosed /\ upSent < MaxTx

\* case tr, open = <-m.messagesIn, a Transaction is received.
ILRecv ==
    /\ ilpc = "select" /\ UpstreamOffers
    /\ ilTr' = upSent + 1
    /\ upSent' = upSent + 1
    /\ preDrain' = IF closeAtLeisure THEN preDrain ELSE preDrain \cup {upSent + 1}
    /\ ilpc' = "write"
    /\ UNCHANGED <<streamVars, sigVars, ilErr, writeCall, outVars, chanVars,
                   backendVars, upClosed, callVars, writeRes, responses, outHist,
                   sigHist, adapterVars>>

\* case tr, open = <-m.messagesIn with !open.
ILRecvClosed ==
    /\ ilpc = "select" /\ messagesIn = "chan" /\ upClosed
    /\ ilpc' = ILReturn
    /\ UNCHANGED <<streamVars, sigVars, ilTr, ilErr, writeCall, outVars, chanVars,
                   backendVars, upVars, callVars, inHist, outHist, sigHist, adapterVars>>

\* The signal the upstream receive races against: CloseAtLeisureChan.
RecvShutChan == closeAtLeisure

\* case <-m.shutSig.CloseAtLeisureChan().
ILDrain ==
    /\ ilpc = "select" /\ RecvShutChan
    /\ ilpc' = ILReturn
    /\ UNCHANGED <<streamVars, sigVars, ilTr, ilErr, writeCall, outVars, chanVars,
                   backendVars, upVars, callVars, inHist, outHist, sigHist, adapterVars>>

\* m.buffer.Write(closeAtLeisureCtx, ...) is called.
ILWriteCall ==
    /\ ilpc = "write"
    /\ ilpc' = "writing"
    /\ writeCall' = [tr |-> ilTr, drained |-> closeAtLeisure,
                     ctxDone |-> Cancelled(WriteCtx),
                     closed |-> closeCalls > 0, eoi |-> eoiCalls > 0]
    /\ UNCHANGED <<streamVars, sigVars, ilTr, ilErr, outVars, chanVars, backendVars,
                   upVars, callVars, inHist, outHist, sigHist, adapterVars>>

\* What the backend's Write can return now: it appends when there is room, it
\* may fail, it gives up when its context is cancelled, and blocks otherwise.
WriteOutcomes(ctx) ==
    (IF closeCalls = 0 /\ Len(buf) < BufCap THEN {Nil} ELSE {})
        \cup (IF closeCalls = 0 THEN {ErrWrite} ELSE {ErrTypeClosed})
        \cup (IF Cancelled(ctx) THEN {Canceled} ELSE {})

\* Write returns err; write.count or write.error is incremented.
ILWriteReturn ==
    /\ ilpc = "writing"
    /\ \E err \in WriteOutcomes(WriteCtx) :
          /\ ilErr' = err
          /\ buf' = IF err = Nil THEN Append(buf, ilTr) ELSE buf
          /\ stats' = IF err = Nil THEN Bump("write_count") ELSE Bump("write_error")
          /\ writeRes' = [writeRes EXCEPT ![ilTr] = err]
    /\ writeCall' = NoCall
    /\ ilpc' = "respond"
    /\ UNCHANGED <<messagesIn, closedWG, streak, sigVars, ilTr, outVars, chanVars,
                   eoiCalls, closeCalls, readFails, upVars, callVars, preDrain,
                   responses, outHist, sigHist, adapterVars>>

\* The error sent on the Transaction's response channel.
ResponseErr == ilErr

\* case tr.ResponseChan <- response.NewError(err), the producer receives it.
ILRespond ==
    /\ ilpc = "respond"
    /\ responses' = [responses EXCEPT ![ilTr] = Append(@, ResponseErr)]
    /\ ilpc' = "select"
    /\ UNCHANGED <<streamVars, sigVars, ilTr, ilErr, writeCall, outVars, chanVars,
                   backendVars, upVars, callVars, preDrain, writeRes, outHist,
                   sigHist, adapterVars>>

\* The signal the response send races against: CloseNowChan.
\* Variant: the response send gives up on drain already.
RespondShutChanLeisure == closeAtLeisure
RespondShutChan == closeNow

\* case <-m.shutSig.CloseNowChan(): the response is abandoned.
ILRespondAbort ==
    /\ ilpc = "respond" /\ RespondShutChan
    /\ ilpc' = ILReturn
    /\ UNCHANGED <<streamVars, sigVars, ilTr, ilErr, writeCall, outVars, chanVars,
                   backendVars, upVars, callVars, inHist, outHist, sigHist, adapterVars>>

\* defer: m.buffer.EndOfInput()
ILEndOfInput ==
    /\ ilpc = "eoi"
    /\ eoiCalls' = eoiCalls + 1
    /\ ilpc' = "wgdone"
    /\ UNCHANGED <<streamVars, sigVars, ilTr, ilErr, writeCall, outVars, chanVars,
                   buf, closeCalls, readFails, upVars, callVars, inHist, outHist,
                   sigHist, adapterVars>>

\* defer: m.closedWG.Done()
ILDone ==
    /\ ilpc = "wgdone"
    /\ closedWG' = closedWG - 1
    /\ ilpc' = "done"
    /\ UNCHANGED <<messagesIn, streak, stats, sigVars, ilTr, ilErr, writeCall,
                   outVars, chanVars, backendVars, upVars, callVars, inHist,
                   outHist, sigHist, adapterVars>>

\* ----------------------------------------------------------- outputLoop
\* The deferred func of outputLoop runs on every return.
\* Variant: a return that skips the backend's Close.
OLReturnSkipClose == "closeOut"
OLReturn == "close"

\* What outputLoop remembers of a return: the path and whether drain had been
\* requested by then.
Exit(why) == [why |-> why, drained |-> closeAtLeisure]

\* What the backend's Read can return now: the oldest batch, the closed error
\* once EndOfInput was called and it is depleted, the cancellation of its
\* context, or a transient failure; it blocks otherwise.
ReadOutcomes(ctx) ==
    (IF buf # <<>> THEN {"batch"} ELSE {})
        \cup (IF buf = <<>> /\ eoiCalls > 0 THEN {ErrTypeClosed} ELSE {})
        \cup (IF Cancelled(ctx) THEN {Canceled} ELSE {})
        \cup (IF readFails < MaxReadFail THEN {ErrRead} ELSE {})

\* err == types.ErrTypeClosed || errors.Is(err, context.Canceled)
\* Variant: only the closed error is expected.
IsExpectedReadErrClosed(err) == err = ErrTypeClosed
IsExpectedReadErr(err) == err \in {ErrTypeClosed, Canceled}

\* msg, ackFunc, err := m.buffer.Read(closeNowCtx) up to the next suspension,
\* for a backend whose Read can return any of outcomes now.
OLReadWith(outcomes) ==
    /\ olpc = "read"
    /\ lateCall' = IF closeCalls > 0 THEN lateCall \cup {"read"} ELSE lateCall
    /\ \E r \in outcomes :
          IF r = "batch"
          THEN /\ olMsg' = Head(buf)
               /\ buf' = Tail(buf)
               /\ stats' = Bump("read_count")
               /\ streak' = 0
               /\ resChan' = [resChan EXCEPT ![Head(buf)] = "empty"]
               /\ readOrder' = Append(readOrder, Head(buf))
               /\ olpc' = "send"
               /\ UNCHANGED <<olExit, readFails>>
          ELSE IF IsExpectedReadErr(r)
          THEN /\ olpc' = OLReturn
               /\ olExit' = Exit(IF r = Canceled THEN "canceled" ELSE "closed")
               /\ UNCHANGED <<olMsg, buf, stats, streak, resChan, readFails,
                              readOrder>>
          ELSE /\ stats' = Bump("read_error")
               /\ readFails' = IF r = ErrRead THEN readFails + 1 ELSE readFails
               /\ olpc' = "retry"
               /\ UNCHANGED <<olMsg, buf, streak, resChan, olExit, readOrder>>
    /\ UNCHANGED <<messagesIn, closedWG, sigVars, inVars, olRes, outClosed, emitted,
                   eoiCalls, closeCalls, upVars, callVars, inHist, acks, ackOrder,
                   sigHist, adapterVars>>

OLRead == OLReadWith(ReadOutcomes(ReadCtx))

\* A backend whose Read returns the closed error on the first call, whether or
\* not EndOfInput was called.
ClosedOnRead == {ErrTypeClosed}

OLReadClosed == OLReadWith(ClosedOnRead)

\* What errThrottle.Retry() can return: true after the backoff while the streak
\* is within the ceiling, false beyond it or when its close channel interrupts.
RetryOutcomes ==
    (IF streak + 1 <= ThrottleCeiling THEN {TRUE} ELSE {})
        \cup (IF streak + 1 > ThrottleCeiling \/ ThrottleCloseChan THEN {FALSE} ELSE {})

\* if !m.errThrottle.Retry() { return }; continue
OLRetry ==
    /\ olpc = "retry"
    /\ streak' = streak + 1
    /\ \E again \in RetryOutcomes :
          IF again
          THEN olpc' = "read" /\ UNCHANGED olExit
          ELSE olpc' = OLReturn /\ olExit' = Exit("throttle")
    /\ UNCHANGED <<messagesIn, closedWG, stats, sigVars, inVars, olMsg, olRes,
                   chanVars, backendVars, upVars, callVars, inHist, outHist, sigHist, adapterVars>>

\* After the send outputLoop waits for the response of this Transaction.
\* Variant: it goes on to the next Read.
AfterSendRead == "read"
AfterSend == "wait"

\* case m.messagesOut <- types.NewTransaction(msg, resChan), the consumer
\* receives it.
OLSend ==
    /\ olpc = "send"
    /\ emitted' = Append(emitted, olMsg)
    /\ lateCall' = IF outClosed > 0 THEN lateCall \cup {"emit"} ELSE lateCall
    /\ olpc' = AfterSend
    /\ UNCHANGED <<streamVars, sigVars, inVars, olMsg, olRes, olExit, outClosed,
                   resChan, backendVars, upVars, callVars, inHist, acks, readOrder,
                   ackOrder, sigHist, adapterVars>>

\* The signal the downstream send races against: CloseNowChan.
SendShutChan == closeNow

\* case <-m.shutSig.CloseNowChan() of the send select.
OLSendAbort ==
    /\ olpc = "send" /\ SendShutChan
    /\ olpc' = OLReturn
    /\ olExit' = Exit("abort")
    /\ UNCHANGED <<streamVars, sigVars, inVars, olMsg, olRes, chanVars, backendVars,
                   upVars, callVars, inHist, outHist, sigHist, adapterVars>>

\* A response value is ready on the Transaction's own channel.
ResponseReady(b) == resChan[b] \in {Nil, ErrSend}

\* The channel once its value has been received: it remembers the value.
Taken(c) == IF c = Nil THEN "taken nil" ELSE IF c = ErrSend THEN "taken err" ELSE c

\* The value received from it.
ResponseValue(b) == IF resChan[b] \in {Nil, ErrSend} THEN resChan[b] ELSE Nil

\* case res, open := <-resChan with a value: the metrics are recorded.
OLRecvResponse ==
    /\ olpc = "wait" /\ ResponseReady(olMsg)
    /\ olRes' = ResponseValue(olMsg)
    /\ resChan' = [resChan EXCEPT ![olMsg] = Taken(@)]
    /\ stats' = IF ResponseValue(olMsg) # Nil
                THEN Bump("send_success") ELSE Bump("send_error")
    /\ olpc' = "ack"
    /\ UNCHANGED <<messagesIn, closedWG, streak, sigVars, inVars, olMsg, olExit,
                   outClosed, emitted, backendVars, upVars, callVars, inHist, outHist,
                   sigHist, adapterVars>>

\* case res, open := <-resChan with !open.
OLRecvClosed ==
    /\ olpc = "wait" /\ resChan[olMsg] = "closed"
    /\ olpc' = OLReturn
    /\ olExit' = Exit("reschan")
    /\ UNCHANGED <<streamVars, sigVars, inVars, olMsg, olRes, chanVars, backendVars,
                   upVars, callVars, inHist, outHist, sigHist, adapterVars>>

\* The signal the response wait races against: CloseNowChan.
\* Variant: the response wait races against nothing.
WaitShutChanNever == FALSE
WaitShutChan == closeNow

\* Variant: on abort the batch is acknowledged as failed before the return.
OLWaitAbortAcks ==
    /\ olpc = "wait" /\ WaitShutChan
    /\ olpc' = OLReturn
    /\ olExit' = Exit("abort")
    /\ acks' = [acks EXCEPT ![olMsg] = Append(@, ErrTypeClosed)]
    /\ UNCHANGED <<streamVars, sigVars, inVars, olMsg, olRes, chanVars, backendVars,
                   upVars, callVars, inHist, readOrder, ackOrder, lateCall, sigHist,
                   adapterVars>>

\* case <-m.shutSig.CloseNowChan() of the response select.
OLWaitAbort ==
    /\ olpc = "wait" /\ WaitShutChan
    /\ olpc' = OLReturn
    /\ olExit' = Exit("abort")
    /\ UNCHANGED <<streamVars, sigVars, inVars, olMsg, olRes, chanVars, backendVars,
                   upVars, callVars, inHist, outHist, sigHist, adapterVars>>

\* The disposition passed to the AckFunc: res.Error().
\* Variant: the AckFunc is always told of a success.
AckArgNil == Nil
AckArg == olRes

\* ackErr := ackFunc(closeNowCtx, res.Error()); what the AckFunc returns only
\* feeds the ack.error counter and the log, which are not part of the state.
OLAck ==
    /\ olpc = "ack"
    /\ acks' = [acks EXCEPT ![olMsg] = Append(@, AckArg)]
    /\ ackOrder' = Append(ackOrder, olMsg)
    /\ UNCHANGED readOrder
    /\ lateCall' = IF closeCalls > 0 THEN lateCall \cup {"ack"} ELSE lateCall
    /\ olpc' = "read"
    /\ UNCHANGED <<streamVars, sigVars, inVars, olMsg, olRes,
                   olExit, chanVars, backendVars, upVars, callVars, inHist, sigHist, adapterVars>>

\* defer: _ = m.buffer.Close(context.Background())
\* Close is followed by the rest of the deferred func.
\* Variant: the loop goes on after Close.
AfterCloseLoop == "read"
AfterClose == "closeOut"

OLClose ==
    /\ olpc = "close"
    /\ closeCalls' = closeCalls + 1
    /\ olpc' = AfterClose
    /\ UNCHANGED <<streamVars, sigVars, inVars, olMsg, olRes, olExit, chanVars, buf,
                   eoiCalls, readFails, upVars, callVars, inHist, outHist, sigHist, adapterVars>>

\* defer: close(m.messagesOut)
OLCloseOut ==
    /\ olpc = "closeOut"
    /\ outClosed' = outClosed + 1
    /\ olpc' = "wgdone"
    /\ UNCHANGED <<streamVars, sigVars, inVars, olMsg, olRes, olExit, emitted,
                   resChan, backendVars, upVars, callVars, inHist, outHist, sigHist, adapterVars>>

\* defer: m.closedWG.Done()
OLDone ==
    /\ olpc = "wgdone"
    /\ closedWG' = closedWG - 1
    /\ olpc' = "done"
    /\ UNCHANGED <<messagesIn, streak, stats, sigVars, inVars, olMsg, olRes, olExit,
                   chanVars, backendVars, upVars, callVars, inHist, outHist, sigHist, adapterVars>>

\* ---------------------------------------------------------- environment
\* The upstream producer closes its channel.
UpstreamClose ==
    /\ ~upClosed
    /\ upClosed' = TRUE
    /\ UNCHANGED <<streamVars, sigVars, inVars, outVars, chanVars, backendVars,
                   upSent, callVars, inHist, outHist, sigHist, adapterVars>>

Emitted == {emitted[k] : k \in 1..Len(emitted)}

\* The downstream consumer answers a Transaction it received.
DownstreamRespond ==
    /\ \E b \in Emitted, v \in {Nil, ErrSend} :
          /\ resChan[b] = "empty"
          /\ resChan' = [resChan EXCEPT ![b] = v]
    /\ UNCHANGED <<streamVars, sigVars, inVars, outVars, outClosed, emitted,
                   backendVars, upVars, callVars, inHist, outHist, sigHist, adapterVars>>

\* The downstream consumer closes a response channel without answering.
DownstreamCloseRes ==
    /\ \E b \in Emitted :
          /\ resChan[b] = "empty"
          /\ resChan' = [resChan EXCEPT ![b] = "closed"]
    /\ UNCHANGED <<streamVars, sigVars, inVars, outVars, outClosed, emitted,
                   backendVars, upVars, callVars, inHist, outHist, sigHist, adapterVars>>

\* ------------------------------------------------------ airGapBatchBuffer
\* What a message part can hold.
Contents == {"a", "b"}

\* newMessageFromPart(part): a Message around the part itself.
newMessageFromPart(part) == [part |-> part, partCopied |-> FALSE]

\* Message.Copy(): a Message around a new part that holds the same content.
Copy(m, h) ==
    [heap |-> Append(h, h[m.part]),
     msg |-> [part |-> Len(h) + 1, partCopied |-> TRUE]]

\* Variant: the batch is made of the caller's own parts.
RECURSIVE IterNoCopy(_, _, _)
IterNoCopy(rest, h, parts) ==
    IF rest = <<>>
    THEN [heap |-> h, parts |-> parts]
    ELSE IterNoCopy(Tail(rest), h, Append(parts, newMessageFromPart(Head(rest))))

\* msg.Iter(func(i, part) { parts[i] = newMessageFromPart(part).Copy() })
RECURSIVE IterCopy(_, _, _)
IterCopy(rest, h, parts) ==
    IF rest = <<>>
    THEN [heap |-> h, parts |-> parts]
    ELSE LET c == Copy(newMessageFromPart(Head(rest)), h)
         IN  IterCopy(Tail(rest), c.heap, Append(parts, c.msg))

\* What the BatchBuffer's WriteBatch can return.
WriteBatchOutcomes == {Nil, ErrWrite, Canceled}

\* The contents, in order, of the parts at the addresses as.
Deref(as) == [i \in 1..Len(as) |-> heap[as[i]]]

\* The addresses, in order, of the parts of a batch.
PartsOf(batch) == [i \in 1..Len(batch) |-> batch[i].part]

\* Write(ctx, msg): return a.b.WriteBatch(ctx, parts)
AdapterWrite ==
    /\ ~writeOut.called
    /\ LET it == IterCopy(callerMsg, heap, <<>>)
       IN  \E err \in WriteBatchOutcomes :
              /\ heap' = it.heap
              /\ held' = IF err = Nil THEN Append(held, it.parts) ELSE held
              /\ writeOut' = [called |-> TRUE, batch |-> it.parts,
                              sent |-> Deref(callerMsg), wbErr |-> err, err |-> err]
    /\ UNCHANGED <<bridgeVars, callerMsg, reads, ackLog>>

\* The caller changes a part of its message in place after Write returned.
CallerMutates ==
    /\ writeOut.called
    /\ \E i \in 1..Len(callerMsg), c \in Contents :
          /\ heap[callerMsg[i]] # c
          /\ heap' = [heap EXCEPT ![callerMsg[i]] = c]
    /\ UNCHANGED <<bridgeVars, callerMsg, held, writeOut, reads, ackLog>>

\* What the BatchBuffer's ReadBatch can return now: its oldest batch, the end
\* of the buffer (plain or wrapped) when it holds none, a failure or the
\* cancellation of its context.
ReadBatchOutcomes ==
    (IF held # <<>> THEN {"batch"} ELSE {ErrEndOfBuffer, WrappedEndOfBuffer})
        \cup {ErrRead, Canceled}

\* errors.Is(err, ErrEndOfBuffer)
\* Variant: no error is taken for the end of the buffer.
IsEndOfBufferNever(err) == FALSE
IsEndOfBuffer(err) == err \in {ErrEndOfBuffer, WrappedEndOfBuffer}

\* A nil types.Message, and message.New(nil).
NilMessage == [nil |-> TRUE, parts |-> <<>>]
MessageNew == [nil |-> FALSE, parts |-> <<>>]

\* for _, msg := range batch { tMsg.Append(msg.part) }
RECURSIVE AppendParts(_, _)
AppendParts(batch, tMsg) ==
    IF batch = <<>>
    THEN tMsg
    ELSE AppendParts(Tail(batch), [tMsg EXCEPT !.parts = Append(@, Head(batch).part)])

\* Read(ctx): the result of ReadBatch turned into a message and an AckFunc, or
\* into an error.
AdapterRead ==
    /\ Len(reads) < MaxReads
    /\ \E r \in ReadBatchOutcomes :
          IF r = "batch"
          THEN /\ reads' = Append(reads, [raw |-> Nil, batch |-> Head(held),
                                          msg |-> AppendParts(Head(held), MessageNew),
                                          ack |-> TRUE, err |-> Nil])
               /\ held' = Tail(held)
          ELSE /\ reads' = Append(reads, [raw |-> r, batch |-> <<>>,
                                          msg |-> NilMessage, ack |-> FALSE,
                                          err |-> IF IsEndOfBuffer(r)
                                                  THEN ErrTypeClosed ELSE r])
               /\ UNCHANGED held
    /\ UNCHANGED <<bridgeVars, heap, callerMsg, writeOut, ackLog>>

\* The disposition the returned AckFunc hands to the BatchBuffer's AckFunc.
AckForward(aerr) == aerr

\* func(c context.Context, aerr error) error { return ackFn(c, aerr) }
AdapterAck ==
    /\ \E k \in 1..Len(reads) : reads[k].ack
    /\ Len(ackLog) < MaxAcks
    /\ \E aerr \in {Nil, ErrSend}, ret \in {Nil, ErrAck} :
          ackLog' = Append(ackLog, [disposition |-> aerr,
                                    forwarded |-> <<AckForward(aerr)>>,
                                    backendRet |-> ret, ret |-> ret])
    /\ UNCHANGED <<bridgeVars, heap, callerMsg, held, writeOut, reads>>

\* The adapter with a caller's message of up to MaxUnits parts.
AdapterInit ==
    /\ StreamInit
    /\ \E n \in 0..MaxUnits : \E c \in [1..n -> Contents] :
          /\ heap = c
          /\ callerMsg = [i \in 1..n |-> i]
    /\ held = <<>> /\ writeOut = NoWrite /\ reads = <<>> /\ ackLog = <<>>

AdapterNext == AdapterWrite \/ CallerMutates \/ AdapterRead \/ AdapterAck

AdapterSpec == AdapterInit /\ [][AdapterNext]_vars

\* -------------------------------------------------------- specification
\* The owner binds the Stream once (Consume on an unbound Stream).
Bind == messagesIn = "nil" /\ Consume

Next ==
    \/ Bind \/ CloseAsync \/ StopConsuming \/ Watcher
    \/ ILRecv \/ ILRecvClosed \/ ILDrain \/ ILWriteCall \/ ILWriteReturn
    \/ ILRespond \/ ILRespondAbort \/ ILEndOfInput \/ ILDone
    \/ OLRead \/ OLRetry \/ OLSend \/ OLSendAbort \/ OLRecvResponse \/ OLRecvClosed
    \/ OLWaitAbort \/ OLAck \/ OLClose \/ OLCloseOut \/ OLDone
    \/ UpstreamClose \/ DownstreamRespond \/ DownstreamCloseRes

Spec == Init /\ [][Next]_vars

\* The same Stream with an owner that also calls Consume again and waits for
\* the close: these calls only set their own results, which Spec leaves out.
CallNext == Next \/ Consume \/ WaitForClose

CallSpec == Init /\ [][CallNext]_vars

\* The steps a loop takes without a partner: the producer and the consumer owe
\* nothing, and the backend owes a return only once its context is cancelled.
ILOwn ==
    \/ ILRecvClosed \/ ILDrain \/ ILWriteCall
    \/ (Cancelled(WriteCtx) /\ ILWriteReturn)
    \/ ILRespondAbort \/ ILEndOfInput \/ ILDone

OLOwn ==
    \/ (Cancelled(ReadCtx) /\ OLRead)
    \/ OLRetry \/ OLSendAbort \/ OLRecvResponse \/ OLRecvClosed \/ OLWaitAbort
    \/ OLAck \/ OLClose \/ OLCloseOut \/ OLDone

\* Every goroutine of the Stream keeps being scheduled.
FairSpec ==
    Init /\ [][Next]_vars /\ WF_vars(ILOwn) /\ WF_vars(OLOwn) /\ WF_vars(Watcher)

\* Consume with any channel value, nil included, on a Stream in any state.
ConsumeAny == \E msgs \in ChanValues : ConsumeWith(msgs)

\* The Stream with an owner that calls Consume with any channel value, followed
\* until a second pair of loops is started.
BindNext == loopsStarted <= 1 /\ (Next \/ ConsumeAny \/ WaitForClose)

BindSpec == Init /\ [][BindNext]_vars

\* The Stream over the backend whose first Read returns the closed error, with
\* an owner that waits for the close.
ClosedReadNext ==
    \/ Bind \/ CloseAsync \/ StopConsuming \/ Watcher \/ WaitForClose
    \/ ILRecv \/ ILRecvClosed \/ ILDrain \/ ILWriteCall \/ ILWriteReturn
    \/ ILRespond \/ ILRespondAbort \/ ILEndOfInput \/ ILDone
    \/ OLReadClosed \/ OLClose \/ OLCloseOut \/ OLDone
    \/ UpstreamClose

OLOwnClosed == OLReadClosed \/ OLClose \/ OLCloseOut \/ OLDone

\* Every goroutine keeps being scheduled, the backend's Write returns and the
\* producer takes every response it is sent; it owes no further Transaction
\* and no close of its channel.
ClosedReadSpec ==
    Init /\ [][ClosedReadNext]_vars
        /\ WF_vars(ILOwn) /\ WF_vars(OLOwnClosed) /\ WF_vars(Watcher)
        /\ WF_vars(ILWriteReturn) /\ WF_vars(ILRespond)

\* ---------------------------------------------------------------- claims
\* The Transactions inputLoop has dequeued.
Accepted == 1..upSent

\* The response values a consumer's answer stands for.
Answer(c) == IF c = "taken nil" THEN Nil ELSE IF c = "taken err" THEN ErrSend ELSE None

\* The batch whose select was won by abort.
Abandoned == IF olExit.why = "abort" THEN {olMsg} ELSE {}

\* C1 as stated: when inputLoop has exited, every Transaction it accepted
\* before drain was requested has exactly one response, sent after Write
\* returned and carrying the error Write returned.
C1_ExactlyOneResponse ==
    InputExited =>
        \A i \in preDrain :
            /\ writeRes[i] # None
            /\ responses[i] = <<writeRes[i]>>

\* C1 as amended: a Transaction accepted before drain was requested never has
\* more than one response, a response is sent after Write returned and carries
\* the error Write returned, and when inputLoop has exited only the last
\* Transaction can lack its response, and only when abort was requested before
\* the response was sent (after its Write returned).
C1_OneResponseUnlessAbort ==
    \A i \in preDrain :
        /\ Len(responses[i]) <= 1
        /\ responses[i] # <<>> => writeRes[i] # None /\ responses[i] = <<writeRes[i]>>
        /\ InputExited /\ responses[i] = <<>> =>
              closeNow /\ i = ilTr /\ writeRes[i] # None

\* Witness of C1: Write succeeded for Transaction 1 and failed for Transaction
\* 2, both accepted before drain; both responses were delivered before
\* inputLoop exited on upstream closure.
C1_Witness ==
    /\ InputExited /\ upClosed /\ ~closeAtLeisure
    /\ preDrain = {1, 2}
    /\ responses[1] = <<Nil>> /\ responses[2] = <<ErrWrite>>

\* C2: the AckFunc of a Read is invoked at most once, only for a Transaction
\* that was emitted and whose own response channel delivered a value, with that
\* value as argument; it is not invoked when abort won or the channel was
\* closed without a value.
C2_AckOnlyAfterResponse ==
    /\ \A b \in TxIds :
          /\ Len(acks[b]) <= 1
          /\ acks[b] # <<>> =>
                /\ b \in Emitted
                /\ Answer(resChan[b]) # None
                /\ acks[b] = <<Answer(resChan[b])>>
    /\ olExit.why \in {"abort", "reschan"} => acks[olMsg] = <<>>

\* Witness of C2: a batch was acknowledged with the error the consumer answered
\* and another one with nil.
C2_Witness ==
    \E b, c \in TxIds :
        /\ acks[b] = <<ErrSend>> /\ resChan[b] = "taken err"
        /\ acks[c] = <<Nil>> /\ resChan[c] = "taken nil"

\* C3: once abort has been requested on a bound Stream, both loops exit and
\* the Signaller reaches Stopped.
C3_AbortStops == (closeNow /\ messagesIn # "nil") ~> hasClosed

\* Witness of C3: Stopped was reached after abort made inputLoop give up its
\* response send and outputLoop give up its Transaction.
C3_Witness ==
    /\ hasClosed /\ closeNow
    /\ olExit.why = "abort"
    /\ ilTr # 0 /\ writeRes[ilTr] # None /\ responses[ilTr] = <<>>

\* C4 as stated: the AckFunc of a batch that was Read and not acknowledged when
\* abort was requested is never invoked.
C4_NoAckAfterAbort == \A b \in inflightAtAbort : acks[b] = <<>>

\* C4 as amended: for a batch that was Read and not acknowledged when abort was
\* requested, the AckFunc is not invoked once a select of outputLoop has picked
\* the abort signal; it is invoked, once and with the response's error, only
\* when outputLoop received the response of that batch.
C4_NoAckOnceAbortObserved ==
    \A b \in inflightAtAbort :
        /\ b \in Abandoned => acks[b] = <<>>
        /\ Len(acks[b]) <= 1
        /\ acks[b] # <<>> => acks[b] = <<Answer(resChan[b])>> /\ b \in Emitted

\* Witness of C4: the response of the in-flight batch arrived after the abort
\* request, abort won the select and the batch was not acknowledged.
C4_Witness ==
    \E b \in inflightAtAbort :
        /\ b \in Abandoned /\ olpc = "done"
        /\ resChan[b] \in {Nil, ErrSend}
        /\ acks[b] = <<>>

ConsumerAnswers == \A b \in TxIds : resChan[b] # "closed"

C7_NoCallAfterClose == ~writeCall.closed /\ "read" \notin lateCall

\* C8: outputLoop closes the backend once and then messagesOut once, both
\* before it signals completion and nowhere but on its return, and emits
\* nothing after messagesOut is closed.
C8_CloseOnceInOrder ==
    /\ closeCalls <= 1 /\ outClosed <= 1
    /\ outClosed <= closeCalls
    /\ closeCalls = (IF olpc \in {"closeOut", "wgdone", "done"} THEN 1 ELSE 0)
    /\ outClosed = (IF olpc \in {"wgdone", "done"} THEN 1 ELSE 0)
    /\ "emit" \notin lateCall

\* Witness of C8: outputLoop has signalled completion after each kind of
\* return; here after the consumer closed a response channel.
C8_Witness ==
    /\ olpc = "done" /\ olExit.why = "reschan"
    /\ closeCalls = 1 /\ outClosed = 1 /\ Len(emitted) > 0

\* C9: inputLoop calls EndOfInput once on its return, before it signals
\* completion, and begins no Write after it.
C9_EndOfInputOnce ==
    /\ eoiCalls = (IF ilpc \in {"wgdone", "done"} THEN 1 ELSE 0)
    /\ ~writeCall.eoi

\* Witness of C9: inputLoop returned because abort won its response send, and
\* has called EndOfInput and signalled completion.
C9_Witness ==
    /\ ilpc = "done" /\ eoiCalls = 1
    /\ closeNow /\ ilTr # 0 /\ writeRes[ilTr] # None /\ responses[ilTr] = <<>>

\* C10: Stopped is reached only when both loops have finished, EndOfInput was
\* called and the backend and messagesOut are closed.
C10_StoppedAfterLoops ==
    hasClosed =>
        /\ ilpc = "done" /\ olpc = "done"
        /\ eoiCalls >= 1 /\ closeCalls >= 1 /\ outClosed >= 1

\* Witness of C10: Stopped was reached without any shutdown request, after the
\* upstream closed and the backend was depleted.
C10_Witness == hasClosed /\ ~closeAtLeisure /\ Len(emitted) > 0

\* C11: once the first Read of a bound Stream has returned the closed error,
\* the Stream gets to Stopped with messagesOut closed and nothing emitted, so
\* that WaitForClose returns nil.
C11_ClosedReadStops ==
    (olExit.why = "closed" /\ stats.read_count = 0)
        ~> (hasClosed /\ outClosed = 1 /\ emitted = <<>>)

\* C12: once Consume has started the loops, no later step (a second Consume
\* with any channel value included) starts further loops or a further watcher
\* or replaces the bound channel, and a Consume made then returns
\* ErrAlreadyStarted.
C12_SecondConsumeRefused ==
    [][loopsStarted >= 1 =>
          /\ loopsStarted' = loopsStarted
          /\ messagesIn' = messagesIn
          /\ (consumeRes' # consumeRes => consumeRes' = ErrAlreadyStarted)]_vars

\* C13: WaitForClose returns nil only when the Stream is Stopped, and a
\* WaitForClose call, timed out or not, changes nothing but its own result:
\* the Signaller, both loops, the channels and the backend are as before.
C13_WaitForCloseFrame ==
    /\ [](waitRes = Nil => hasClosed)
    /\ [][waitRes' # waitRes \/ timedOut' # timedOut =>
            /\ waitRes' \in {Nil, ErrTimeout}
            /\ (waitRes' = Nil => hasClosed)
            /\ UNCHANGED <<streamVars, sigVars, inVars, outVars, chanVars,
                           backendVars, upVars, consumeRes, loopsStarted, inHist,
                           outHist, sigHist, adapterVars>>]_vars

\* A WaitForClose timed out before Stopped, the loops went on to Stopped and a
\* later WaitForClose returned nil, with no shutdown ever requested.
C13_Witness ==
    timedOut /\ waitRes = Nil /\ hasClosed /\ ~closeAtLeisure /\ Len(emitted) > 0

\* C14: while no abort is requested, the context of a Write in progress that
\* began before drain was requested is not cancelled, and no Write returns the
\* cancellation of its context.
C14_WriteCtxAbortOnly ==
    ~closeNow =>
        /\ (ilpc = "writing" /\ ~writeCall.drained => ~Cancelled(WriteCtx))
        /\ \A i \in preDrain : writeRes[i] # Canceled

\* The batches Read has returned that were not sent on messagesOut.
ReadNotEmitted == IF olMsg # 0 /\ olMsg \notin Emitted THEN 1 ELSE 0

\* C15: read.error counts the transient Read failures exactly; a Read that
\* returns the closed error or a cancellation ends the loop and touches
\* neither the counters nor the throttle; a transient failure increments
\* read.error once, emits nothing and goes to the throttle, which either sends
\* the loop back to Read or ends it; a successful Read resets the streak and
\* its batch is the one Transaction emitted for it (none only when abort wins
\* the send).
C15_ReadErrorHandling ==
    /\ [](stats.read_error = readFails)
    /\ [](/\ Len(emitted) + ReadNotEmitted = stats.read_count
          /\ (ReadNotEmitted = 1 => olpc = "send" \/ olExit.why = "abort"))
    /\ [][olpc = "read" /\ olpc' # "read" =>
            \/ /\ olpc' = OLReturn /\ olExit'.why \in {"closed", "canceled"}
               /\ UNCHANGED <<stats, streak, emitted>>
            \/ /\ olpc' = "retry"
               /\ stats' = [stats EXCEPT !.read_error = @ + 1]
               /\ UNCHANGED <<streak, emitted>>
            \/ /\ olpc' = "send"
               /\ stats' = [stats EXCEPT !.read_count = @ + 1]
               /\ streak' = 0
               /\ UNCHANGED emitted]_vars
    /\ [][olpc = "retry" /\ olpc' # "retry" =>
            /\ UNCHANGED <<stats, emitted>>
            /\ \/ olpc' = "read"
               \/ olpc' = OLReturn /\ olExit'.why = "throttle"]_vars

\* Two consecutive transient failures, then the first successful Read: two
\* read.error increments, the streak reset and one Transaction emitted.
C15_Witness ==
    /\ stats.read_error = 2 /\ stats.read_count = 1 /\ streak = 0
    /\ Len(emitted) = 1 /\ olpc = "wait"

\* C16: send.success is the number of responses received that carry no
\* error and send.error the number of responses received that carry one.
C16_SendMetrics ==
    /\ stats.send_success = Cardinality({b \in TxIds : resChan[b] = "taken nil"})
    /\ stats.send_error = Cardinality({b \in TxIds : resChan[b] = "taken err"})

\* C17: a Read whose ReadBatch failed returns no message and no AckFunc with
\* the error, the end of the buffer turned into ErrTypeClosed and any other
\* error as it is; a Read whose ReadBatch succeeded returns a message made of
\* the batch's parts in batch order, and an AckFunc; every call of a returned
\* AckFunc hands its disposition once to the BatchBuffer's AckFunc and returns
\* what that returned.
C17_AdapterRead ==
    /\ \A k \in 1..Len(reads) :
          LET r == reads[k] IN
          IF r.raw # Nil
          THEN /\ r.msg = NilMessage /\ ~r.ack
               /\ r.err = IF r.raw \in {ErrEndOfBuffer, WrappedEndOfBuffer}
                          THEN ErrTypeClosed ELSE r.raw
          ELSE /\ ~r.msg.nil /\ r.ack /\ r.err = Nil
               /\ Len(r.msg.parts) = Len(r.batch)
               /\ \A i \in 1..Len(r.batch) : r.msg.parts[i] = r.batch[i].part
    /\ \A k \in 1..Len(ackLog) :
          /\ ackLog[k].forwarded = <<ackLog[k].disposition>>
          /\ ackLog[k].ret = ackLog[k].backendRet

\* A Read that returned a batch of two parts, then a Read at the end of the
\* buffer, and an AckFunc call with a failed delivery that the BatchBuffer's
\* AckFunc answered with an error.
C17_Witness ==
    /\ Len(reads) = 2
    /\ reads[1].raw = Nil /\ Len(reads[1].msg.parts) = 2
    /\ Deref(reads[1].msg.parts) = <<"a", "b">>
    /\ reads[2].raw = ErrEndOfBuffer /\ reads[2].err = ErrTypeClosed
    /\ \E k \in 1..Len(ackLog) :
          ackLog[k].disposition = ErrSend /\ ackLog[k].ret = ErrAck

\* C18: Write hands WriteBatch a batch with as many parts as the message, in
\* the same order and with the contents the message had, each part a copy at
\* an address of its own, so that the batch, and what a later Read returns,
\* keep those contents whatever the caller does to its message afterwards;
\* Write returns what WriteBatch returned.
C18_AdapterWrite ==
    writeOut.called =>
        /\ writeOut.err = writeOut.wbErr
        /\ Len(writeOut.batch) = Len(callerMsg)
        /\ Deref(PartsOf(writeOut.batch)) = writeOut.sent
        /\ \A i \in 1..Len(writeOut.batch), j \in 1..Len(callerMsg) :
              writeOut.batch[i].part # callerMsg[j]
        /\ \A k \in 1..Len(reads) :
              reads[k].raw = Nil => Deref(reads[k].msg.parts) = writeOut.sent

\* A message of two parts was written, the caller then changed both parts, and
\* a later Read returned the contents as written.
C18_Witness ==
    /\ writeOut.called /\ writeOut.err = Nil /\ writeOut.sent = <<"a", "b">>
    /\ Deref(callerMsg) = <<"b", "a">>
    /\ \E k \in 1..Len(reads) :
          reads[k].raw = Nil /\ Deref(reads[k].msg.parts) = <<"a", "b">>

\* s is an initial part of t, at most one element shorter.
Behind(s, t) ==
    /\ Len(s) <= Len(t) /\ Len(t) <= Len(s) + 1
    /\ \A k \in 1..Len(s) : s[k] = t[k]

\* C19: the Transactions are emitted in the order Read returned the batches
\* and the AckFuncs are called in that order, never more than one batch being
\* Read and not emitted or emitted and not acknowledged; outputLoop is at Read
\* (or at the throttle before a Read) only when every batch Read so far has
\* been acknowledged.
C19_OneOutstanding ==
    /\ Behind(emitted, readOrder)
    /\ Behind(ackOrder, emitted)
    /\ Len(readOrder) <= Len(ackOrder) + 1
    /\ olpc \in {"read", "retry"} => ackOrder = readOrder

\* Two batches were Read, emitted and acknowledged, one after the other.
C19_Witness ==
    Len(readOrder) = 2 /\ emitted = readOrder /\ ackOrder = readOrder /\ olpc = "read"

\* C20: no AckFunc is called once the backend's Close has been called, and
\* Close is called only after outputLoop has left its loop.
C20_AckBeforeClose ==
    /\ "ack" \notin lateCall
    /\ closeCalls > 0 => olpc \in {"closeOut", "wgdone", "done"}

\* The backend was closed on abort after one batch had been acknowledged and
\* while the next one was in flight.
C20_Witness ==
    /\ closeCalls = 1 /\ olExit.why = "abort" /\ Len(ackOrder) = 1
    /\ Len(emitted) = 2 /\ acks[olMsg] = <<>>

====
